---- MODULE Spec2Model ----
(***************************************************************************)
(* Model of moirai's reference_handle<T> (reference_handle.hpp) and of the *)
(* reference_handle_map registry it is built on.                           *)
(*                                                                         *)
(* A handle slot goes through                                              *)
(*   none -> ctor -> in_get -> live -> in_release -> released -> none      *)
(* ctor      : a constructor was entered and is about to call              *)
(*             find_shared_ptr(p) (waits for the registry lock)            *)
(* in_get    : the constructing thread is inside reference_handle_map::get *)
(* live      : construction finished, the destructor has not started       *)
(* in_release: ~reference_handle() runs and is inside                      *)
(*             reference_handle_map::release(get_ptr())                    *)
(* released  : release() returned, the member sharedPtr is not yet         *)
(*             destroyed (members die after the destructor body)           *)
(* Every slot in a transitional state is driven by its own thread.         *)
(***************************************************************************)
EXTENDS Integers, FiniteSets, Sequences, TLC

MaxHandles == 2      \* handle slots (and so concurrent threads)
NumAddr == 2         \* non-null object addresses 1..NumAddr
MaxCtor == 3         \* constructor calls in one run

NullPtr == 0
Handles == 1..MaxHandles
Addr == 1..NumAddr
Addr0 == 0..NumAddr                 \* addresses including nullptr
Types == {"T1", "T2"}               \* static types T of reference_handle<T>
BlockIds == 1..MaxHandles           \* control blocks that can coexist
NoBlock == 0

VARIABLES
    hs,         \* hs[h]: the handle in slot h: st, addr (p), T, sp (sharedPtr),
                \* src (the handle a running copy reads), own (p is the
                \* constructor's own new T, not yet known to anyone else)
    reg,        \* registry map: address -> control block (NoBlock: no entry)
    share,      \* registry share of the entry of an address
    blocks,     \* control blocks of std::shared_ptr: addr, uc (use_count), del
    lock,       \* holder of the registry mutex (0: free)
    objState,   \* objState[a]: "free" or "live" (an object is allocated at a)
    dtorRuns,   \* destructor runs on the object allocated last at a
    dtorTotal,  \* destructor runs in the whole run
    zeroCount,  \* times the share of an entry reached zero
    nCtor,      \* constructor calls so far
    err,        \* outcome of the last constructor call
    halted,     \* the process aborted (an outcome of a double delete)
    raced,      \* raced[a]: a construction on a overlapped a destruction on a
    made,       \* handles constructed on the object allocated last at a
    q,          \* the last cast or marshalling call and what it returned
    owned       \* owned[h]: address of the object that holds handle h as a
                \* member and destroys it in its destructor (0: none)

vars == <<hs, reg, share, blocks, lock, objState, dtorRuns, dtorTotal,
          zeroCount, nCtor, err, halted, raced, made, q, owned>>

\* what the operations on handles leave alone
xvars == <<q, owned>>

\* everything but the last call and the handles held by objects
ovars_but_owned == <<hs, reg, share, blocks, lock, objState, dtorRuns, dtorTotal,
                     zeroCount, nCtor, err, halted, raced, made>>

NoQuery == [op |-> "none"]

NoHandle == [st |-> "none", addr |-> NullPtr, T |-> "none", sp |-> NoBlock, src |-> 0,
             own |-> FALSE]
NoBlockRec == [addr |-> NullPtr, uc |-> 0, del |-> "none"]

\* "dtor": ~reference_handle() is called and waits for the registry lock;
\* "deleting": the destruction of sharedPtr runs the destructor of the object,
\* which is destroying the handles the object holds
States == {"none", "ctor", "in_get", "live", "dtor", "in_release", "released", "deleting"}

TypeOK ==
    /\ hs \in [Handles -> [st : States, addr : Addr0, T : Types \cup {"none"},
                           sp : BlockIds \cup {NoBlock}, src : Handles \cup {0},
                           own : BOOLEAN]]
    /\ reg \in [Addr0 -> BlockIds \cup {NoBlock}]
    /\ share \in [Addr0 -> 0..MaxCtor]
    /\ blocks \in [BlockIds -> [addr : Addr0, uc : 0..(MaxHandles + 1),
                                del : Types \cup {"none"}]]
    /\ lock \in Handles \cup {0}
    /\ objState \in [Addr -> {"free", "live"}]
    /\ dtorRuns \in [Addr -> 0..MaxCtor]
    /\ dtorTotal \in 0..MaxCtor
    /\ zeroCount \in 0..MaxCtor
    /\ nCtor \in 0..MaxCtor
    /\ err \in {"none", "invalid_argument", "bad_alloc"}
    /\ halted \in BOOLEAN
    /\ raced \in [Addr0 -> BOOLEAN]
    /\ made \in [Addr0 -> 0..MaxCtor]
    /\ owned \in [Handles -> Addr0]

Init ==
    /\ hs = [h \in Handles |-> NoHandle]
    /\ reg = [a \in Addr0 |-> NoBlock]
    /\ share = [a \in Addr0 |-> 0]
    /\ blocks = [b \in BlockIds |-> NoBlockRec]
    /\ lock = 0
    /\ objState = [a \in Addr |-> "free"]
    /\ dtorRuns = [a \in Addr |-> 0]
    /\ dtorTotal = 0
    /\ zeroCount = 0
    /\ nCtor = 0
    /\ err = "none"
    /\ halted = FALSE
    /\ raced = [a \in Addr0 |-> FALSE]
    /\ made = [a \in Addr0 |-> 0]
    /\ q = NoQuery
    /\ owned = [h \in Handles |-> NullPtr]

----------------------------------------------------------------------------
(* std::shared_ptr                                                         *)

\* sharedPtr.use_count()
use_count(b) == IF b = NoBlock THEN 0 ELSE blocks[b].uc

\* sharedPtr.get()
sp_get(b) == IF b = NoBlock THEN NullPtr ELSE blocks[b].addr

\* reference_handle::get_ptr
get_ptr(h) == sp_get(hs[h].sp)

\* reference_handle::get_void_ptr
get_void_ptr(h) == get_ptr(h)

\* count() that reports use_count() itself
count_total(h) == use_count(hs[h].sp)

\* reference_handle::count
count(h) == use_count(hs[h].sp) - 1

\* create_shared_ptr of reference_handle<T>: a new control block owning p whose
\* deleter is ~T (shared_ptr<T> cast to shared_ptr<void>)
create_shared_ptr(p, T) == [addr |-> p, uc |-> 1, del |-> T]

FreeBlock == CHOOSE b \in BlockIds : blocks[b].uc = 0 /\ \A c \in BlockIds : blocks[c].uc = 0 => b <= c
HasFreeBlock == \E b \in BlockIds : blocks[b].uc = 0

\* Handles whose constructor or destructor is in progress on address a
Constructing(a) == {g \in Handles : hs[g].st \in {"ctor", "in_get"} /\ hs[g].addr = a}
Destructing(a) == {g \in Handles : hs[g].st \in {"in_release", "released"} /\ hs[g].addr = a}
LiveOn(a) == {g \in Handles : hs[g].st = "live" /\ hs[g].addr = a}

\* A new handle takes the first unused slot (slots are interchangeable)
NewSlot(h) == hs[h].st = "none" /\ \A g \in Handles : hs[g].st = "none" => h <= g

Quiescent == \A h \in Handles : hs[h].st \in {"none", "live"}

----------------------------------------------------------------------------
(* Object destruction and shared_ptr release                               *)

\* The deleter of a control block runs: delete (T*)a.  Deleting an object that
\* is not allocated any more is undefined behaviour: the destructor runs on
\* the dead object and the process either goes on or aborts (crash).
Deleter(a, crash) ==
    IF a = NullPtr
    THEN UNCHANGED <<objState, dtorRuns, dtorTotal, halted>>
    ELSE /\ dtorRuns' = [dtorRuns EXCEPT ![a] = @ + 1]
         /\ dtorTotal' = dtorTotal + 1
         /\ objState' = [objState EXCEPT ![a] = "free"]
         /\ halted' = (objState[a] # "live" /\ crash)

\* One std::shared_ptr on block b is destroyed; the last one runs the deleter.
ReleaseShared(b, crash) ==
    IF b = NoBlock
    THEN UNCHANGED <<blocks, objState, dtorRuns, dtorTotal, halted>>
    ELSE IF blocks[b].uc > 1
         THEN /\ blocks' = [blocks EXCEPT ![b].uc = @ - 1]
              /\ UNCHANGED <<objState, dtorRuns, dtorTotal, halted>>
         ELSE /\ blocks' = [blocks EXCEPT ![b] = NoBlockRec]
              /\ Deleter(blocks[b].addr, crash)

\* Outcomes of destroying one shared_ptr on b
Outcomes(b) ==
    IF b # NoBlock /\ blocks[b].uc = 1 /\ blocks[b].addr # NullPtr
       /\ objState[blocks[b].addr] # "live"
    THEN BOOLEAN ELSE {FALSE}

----------------------------------------------------------------------------
(* Constructors                                                            *)

\* A constructor of reference_handle<T> reaches find_shared_ptr(p)
EnterFind(h, T, p, src, own) ==
    /\ hs' = [hs EXCEPT ![h] = [st |-> "ctor", addr |-> p, T |-> T,
                                sp |-> NoBlock, src |-> src, own |-> own]]
    /\ raced' = [raced EXCEPT ![p] = @ \/ Destructing(p) # {}]
    /\ err' = "none"
    /\ nCtor' = nCtor + 1

\* reference_handle(T* p) without the null check
RawCtor_nocheck(h, T, p, src) == EnterFind(h, T, p, src, FALSE)

\* reference_handle(T* p): a null p throws std::invalid_argument
RawCtor(h, T, p, src) ==
    IF p = NullPtr
    THEN /\ err' = "invalid_argument"
         /\ nCtor' = nCtor + 1
         /\ UNCHANGED <<hs, raced>>
    ELSE EnterFind(h, T, p, src, FALSE)

\* reference_handle(const T& object): T* p = new T(object)
CtorValue(h, T) ==
    /\ ~halted /\ nCtor < MaxCtor
    /\ NewSlot(h)
    /\ \E p \in Addr :
        /\ objState[p] = "free"
        /\ objState' = [objState EXCEPT ![p] = "live"]
        /\ dtorRuns' = [dtorRuns EXCEPT ![p] = 0]
        /\ made' = [made EXCEPT ![p] = 0]
        /\ EnterFind(h, T, p, 0, TRUE)
    /\ UNCHANGED <<reg, share, blocks, lock, dtorTotal, zeroCount, halted>>

\* reference_handle(T* p) called with nullptr, with the address of an object
\* that is allocated, or with the address of an object the caller just
\* allocated (new T)
CtorRaw(h, T, p) ==
    /\ ~halted /\ nCtor < MaxCtor
    /\ NewSlot(h)
    /\ \A g \in Handles : hs[g].own => hs[g].addr # p
    /\ RawCtor(h, T, p, 0)
    /\ IF p # NullPtr /\ objState[p] = "free"
       THEN /\ objState' = [objState EXCEPT ![p] = "live"]
            /\ dtorRuns' = [dtorRuns EXCEPT ![p] = 0]
            /\ made' = [made EXCEPT ![p] = 0]
       ELSE UNCHANGED <<objState, dtorRuns, made>>
    /\ UNCHANGED <<reg, share, blocks, lock, dtorTotal, zeroCount, halted>>

\* a copy constructor that copies the object into new storage
CtorCopy_deep(h, src) ==
    /\ ~halted /\ nCtor < MaxCtor
    /\ NewSlot(h)
    /\ h # src /\ hs[src].st = "live"
    /\ \E p \in Addr :
        /\ objState[p] = "free"
        /\ objState' = [objState EXCEPT ![p] = "live"]
        /\ dtorRuns' = [dtorRuns EXCEPT ![p] = 0]
        /\ made' = [made EXCEPT ![p] = 0]
        /\ EnterFind(h, hs[src].T, p, src, FALSE)
    /\ UNCHANGED <<reg, share, blocks, lock, dtorTotal, zeroCount, halted>>

\* reference_handle(const reference_handle<T>& ptr): the source is a live
\* handle for the whole call
CtorCopy(h, src) ==
    /\ ~halted /\ nCtor < MaxCtor
    /\ NewSlot(h)
    /\ h # src /\ hs[src].st = "live"
    /\ EnterFind(h, hs[src].T, sp_get(hs[src].sp), src, FALSE)
    /\ UNCHANGED <<reg, share, blocks, lock, objState, dtorRuns, dtorTotal,
                   zeroCount, halted, made>>

\* new_reference_handle() as new reference_handle<T>(*get_ptr())
new_reference_handle_value(h, src) == CtorCopy_deep(h, src)

\* new_reference_handle(): new reference_handle<T>(get_ptr())
new_reference_handle(h, src) ==
    /\ ~halted /\ nCtor < MaxCtor
    /\ NewSlot(h)
    /\ h # src /\ hs[src].st = "live"
    /\ RawCtor(h, hs[src].T, get_ptr(src), src)
    /\ UNCHANGED <<reg, share, blocks, lock, objState, dtorRuns, dtorTotal,
                   zeroCount, halted, made>>

----------------------------------------------------------------------------
(* The registry, reference_handle_map                                      *)

\* get that does not wait for the lock
GetLock_nowait(h) ==
    /\ ~halted
    /\ hs[h].st = "ctor"
    /\ lock' = h
    /\ hs' = [hs EXCEPT ![h].st = "in_get"]
    /\ UNCHANGED <<reg, share, blocks, objState, dtorRuns, dtorTotal,
                   zeroCount, nCtor, err, halted, raced, made>>

\* get(p, create) is entered: the registry lock is taken
GetLock(h) ==
    /\ ~halted
    /\ hs[h].st = "ctor"
    /\ lock = 0
    /\ lock' = h
    /\ hs' = [hs EXCEPT ![h].st = "in_get"]
    /\ UNCHANGED <<reg, share, blocks, objState, dtorRuns, dtorTotal,
                   zeroCount, nCtor, err, halted, raced, made>>

\* get(p, create): the entry of p if there is one, else create(p) is
\* inserted; the share of the entry grows by one and a shared_ptr on the
\* block is returned
RegistryGet(p, T) ==
    IF reg[p] = NoBlock
    THEN /\ HasFreeBlock
         /\ reg' = [reg EXCEPT ![p] = FreeBlock]
         /\ share' = [share EXCEPT ![p] = 1]
         /\ blocks' = [blocks EXCEPT ![FreeBlock] =
                          [create_shared_ptr(p, T) EXCEPT !.uc = @ + 1]]
    ELSE /\ reg' = reg
         /\ share' = [share EXCEPT ![p] = @ + 1]
         /\ blocks' = [blocks EXCEPT ![reg[p]].uc = @ + 1]

\* find_shared_ptr(p) as sharedPtr = create_shared_ptr(p), past the registry
find_shared_ptr_noreg(h) ==
    /\ ~halted
    /\ hs[h].st = "in_get"
    /\ lock = h
    /\ HasFreeBlock
    /\ blocks' = [blocks EXCEPT ![FreeBlock] = create_shared_ptr(hs[h].addr, hs[h].T)]
    /\ hs' = [hs EXCEPT ![h].st = "live", ![h].sp = FreeBlock,
                         ![h].src = 0, ![h].own = FALSE]
    /\ made' = [made EXCEPT ![hs[h].addr] = @ + 1]
    /\ lock' = 0
    /\ UNCHANGED <<reg, share, objState, dtorRuns, dtorTotal, zeroCount, nCtor,
                   err, halted, raced>>

\* find_shared_ptr(p): sharedPtr = static_pointer_cast<T>(get(p, create_shared_ptr));
\* the lock is dropped when get returns and the constructor ends
find_shared_ptr(h) ==
    /\ ~halted
    /\ hs[h].st = "in_get"
    /\ lock = h
    /\ RegistryGet(hs[h].addr, hs[h].T)
    /\ hs' = [hs EXCEPT ![h].st = "live", ![h].sp = reg'[hs[h].addr],
                         ![h].src = 0, ![h].own = FALSE]
    /\ made' = [made EXCEPT ![hs[h].addr] = @ + 1]
    /\ lock' = 0
    /\ UNCHANGED <<objState, dtorRuns, dtorTotal, zeroCount, nCtor, err,
                   halted, raced>>

\* ~reference_handle() starts: release(this->get_ptr()) takes the lock.  A
\* handle that a running copy reads is not destroyed meanwhile.
DtorEnter(h) ==
    /\ ~halted
    /\ hs[h].st = "live"
    /\ \A g \in Handles : hs[g].st \in {"ctor", "in_get"} => hs[g].src # h
    /\ lock = 0
    /\ lock' = h
    /\ hs' = [hs EXCEPT ![h].st = "in_release"]
    /\ raced' = [raced EXCEPT ![hs[h].addr] = @ \/ Constructing(hs[h].addr) # {}]
    /\ UNCHANGED <<reg, share, blocks, objState, dtorRuns, dtorTotal,
                   zeroCount, nCtor, err, halted, made>>

\* release(p): the share of the entry of p drops by one; at zero the entry is
\* erased, which destroys the registry's shared_ptr on the block
RegistryRelease(p, crash) ==
    IF reg[p] = NoBlock
    THEN UNCHANGED <<reg, share, blocks, objState, dtorRuns, dtorTotal,
                     zeroCount, halted>>
    ELSE IF share[p] > 1
         THEN /\ share' = [share EXCEPT ![p] = @ - 1]
              /\ UNCHANGED <<reg, blocks, objState, dtorRuns, dtorTotal,
                             zeroCount, halted>>
         ELSE /\ share' = [share EXCEPT ![p] = 0]
              /\ reg' = [reg EXCEPT ![p] = NoBlock]
              /\ zeroCount' = zeroCount + 1
              /\ ReleaseShared(reg[p], crash)

\* ~reference_handle() that never calls release
DtorBody_norelease(h) ==
    /\ ~halted
    /\ hs[h].st = "in_release"
    /\ lock = h
    /\ hs' = [hs EXCEPT ![h].st = "released"]
    /\ lock' = 0
    /\ UNCHANGED <<reg, share, blocks, objState, dtorRuns, dtorTotal, zeroCount,
                   halted, nCtor, err, raced, made>>

\* ~reference_handle() that resets sharedPtr before it calls release(p)
DtorBody_resetfirst(h) ==
    /\ ~halted
    /\ hs[h].st = "in_release"
    /\ lock = h
    /\ LET p == get_ptr(h)
           b == hs[h].sp
       IN IF share[p] > 1
          THEN /\ share' = [share EXCEPT ![p] = @ - 1]
               /\ blocks' = [blocks EXCEPT ![b].uc = @ - 1]
               /\ UNCHANGED <<reg, objState, dtorRuns, dtorTotal, zeroCount, halted>>
          ELSE /\ share' = [share EXCEPT ![p] = 0]
               /\ reg' = [reg EXCEPT ![p] = NoBlock]
               /\ zeroCount' = zeroCount + 1
               /\ blocks' = [blocks EXCEPT ![b] = NoBlockRec]
               /\ Deleter(p, FALSE)
    /\ hs' = [hs EXCEPT ![h].st = "released", ![h].sp = NoBlock]
    /\ lock' = 0
    /\ UNCHANGED <<nCtor, err, raced, made>>

\* the body of ~reference_handle(): release(get_ptr()) runs and returns while
\* the handle still holds sharedPtr
DtorBody(h) ==
    /\ ~halted
    /\ hs[h].st = "in_release"
    /\ lock = h
    /\ \E crash \in Outcomes(reg[get_ptr(h)]) : RegistryRelease(get_ptr(h), crash)
    /\ hs' = [hs EXCEPT ![h].st = "released"]
    /\ lock' = 0
    /\ UNCHANGED <<nCtor, err, raced, made>>

\* after the body of ~reference_handle() the member sharedPtr is destroyed
DtorMember(h) ==
    /\ ~halted
    /\ hs[h].st = "released"
    /\ \E crash \in Outcomes(hs[h].sp) : ReleaseShared(hs[h].sp, crash)
    /\ hs' = [hs EXCEPT ![h] = NoHandle]
    /\ UNCHANGED <<reg, share, lock, zeroCount, nCtor, err, raced, made>>

----------------------------------------------------------------------------
DoCtorValue == (\E h \in Handles, T \in Types : CtorValue(h, T)) /\ UNCHANGED xvars
DoCtorRaw == (\E h \in Handles, T \in Types, p \in Addr0 : CtorRaw(h, T, p)) /\ UNCHANGED xvars
DoCtorCopy == (\E h \in Handles, src \in Handles : CtorCopy(h, src)) /\ UNCHANGED xvars
DoNewReferenceHandle == (\E h \in Handles, src \in Handles : new_reference_handle(h, src)) /\ UNCHANGED xvars
DoGetLock == (\E h \in Handles : GetLock(h)) /\ UNCHANGED xvars
DoFind == (\E h \in Handles : find_shared_ptr(h)) /\ UNCHANGED xvars
DoDtorEnter == (\E h \in Handles : DtorEnter(h)) /\ UNCHANGED xvars
DoDtorBody == (\E h \in Handles : DtorBody(h)) /\ UNCHANGED xvars
DoDtorMember == (\E h \in Handles : DtorMember(h)) /\ UNCHANGED xvars

Next ==
    \/ DoCtorValue
    \/ DoCtorRaw
    \/ DoCtorCopy
    \/ DoNewReferenceHandle
    \/ DoGetLock
    \/ DoFind
    \/ DoDtorEnter
    \/ DoDtorBody
    \/ DoDtorMember

Spec == Init /\ [][Next]_vars

----------------------------------------------------------------------------
(* Failure of the factory: create_shared_ptr throws std::bad_alloc          *)

\* get(p, create) whose factory throws, the entry being inserted beforehand
RegistryGetThrows_inserted(p) ==
    /\ reg' = reg
    /\ share' = [share EXCEPT ![p] = 1]

\* get(p, create) whose factory throws: the exception goes to the caller and
\* nothing is inserted
RegistryGetThrows(p) ==
    /\ reg' = reg
    /\ share' = share

\* find_shared_ptr(p) when p has no entry and std::shared_ptr<T> ptr(typed_p)
\* in create_shared_ptr cannot allocate its control block: the shared_ptr
\* constructor deletes typed_p and throws std::bad_alloc, get and the
\* constructor of the handle forward it, the lock is dropped and no handle
\* is constructed
find_shared_ptr_throws(h) ==
    /\ ~halted
    /\ hs[h].st = "in_get"
    /\ lock = h
    /\ reg[hs[h].addr] = NoBlock
    /\ RegistryGetThrows(hs[h].addr)
    /\ \E crash \in (IF objState[hs[h].addr] # "live" THEN BOOLEAN ELSE {FALSE}) :
        Deleter(hs[h].addr, crash)
    /\ hs' = [hs EXCEPT ![h] = NoHandle]
    /\ err' = "bad_alloc"
    /\ lock' = 0
    /\ UNCHANGED <<blocks, zeroCount, nCtor, raced, made>>

DoFindThrows == (\E h \in Handles : find_shared_ptr_throws(h)) /\ UNCHANGED xvars

FailNext ==
    \/ DoCtorValue
    \/ DoCtorRaw
    \/ DoCtorCopy
    \/ DoNewReferenceHandle
    \/ DoGetLock
    \/ DoFind
    \/ DoFindThrows
    \/ DoDtorEnter
    \/ DoDtorBody
    \/ DoDtorMember

FailSpec == Init /\ [][FailNext]_vars

----------------------------------------------------------------------------
(* Objects that hold handles; threads that wait for the registry lock       *)

\* The live handles the object at address a holds as members
OwnedLive(a) == {g \in Handles : owned[g] = a /\ hs[g].st = "live"}

\* Destroying sharedPtr of h runs the deleter of its block
RunsDeleter(h) == hs[h].sp # NoBlock /\ blocks[hs[h].sp].uc = 1

\* A live handle on another object is made a member of the object at a (the
\* object is the only user of that handle from then on)
Attach(h, a) ==
    /\ ~halted
    /\ hs[h].st = "live"
    /\ owned[h] = NullPtr
    /\ objState[a] = "live"
    /\ hs[h].addr # a
    /\ \A g \in Handles : hs[g].src # h
    /\ owned' = [owned EXCEPT ![h] = a]
    /\ UNCHANGED <<ovars_but_owned, q>>

\* ~reference_handle() is called on a handle that no object holds: the
\* thread asks for the registry lock
DtorCall(h) ==
    /\ ~halted
    /\ hs[h].st = "live"
    /\ owned[h] = NullPtr
    /\ \A g \in Handles : hs[g].st \in {"ctor", "in_get"} => hs[g].src # h
    /\ hs' = [hs EXCEPT ![h].st = "dtor"]
    /\ UNCHANGED <<reg, share, blocks, lock, objState, dtorRuns, dtorTotal,
                   zeroCount, nCtor, err, halted, raced, made, xvars>>

\* release(this->get_ptr()) gets the registry lock
DtorLock(h) ==
    /\ ~halted
    /\ hs[h].st = "dtor"
    /\ lock = 0
    /\ lock' = h
    /\ hs' = [hs EXCEPT ![h].st = "in_release"]
    /\ raced' = [raced EXCEPT ![hs[h].addr] = @ \/ Constructing(hs[h].addr) # {}]
    /\ UNCHANGED <<reg, share, blocks, objState, dtorRuns, dtorTotal,
                   zeroCount, nCtor, err, halted, made, xvars>>

\* the member sharedPtr is destroyed and no destructor of a handle is called
\* from it
DtorMemberPlain(h) ==
    /\ DtorMember(h)
    /\ ~RunsDeleter(h) \/ OwnedLive(hs[h].addr) = {}
    /\ owned' = [owned EXCEPT ![h] = NullPtr]
    /\ q' = q

\* the member sharedPtr is destroyed, the deleter runs ~T on the object, and
\* ~T calls the destructors of the handles the object holds
DtorMemberOwning(h) ==
    /\ ~halted
    /\ hs[h].st = "released"
    /\ RunsDeleter(h)
    /\ OwnedLive(hs[h].addr) # {}
    /\ \E crash \in Outcomes(hs[h].sp) : ReleaseShared(hs[h].sp, crash)
    /\ hs' = [g \in Handles |->
                IF g = h THEN [hs[h] EXCEPT !.st = "deleting", !.sp = NoBlock]
                ELSE IF g \in OwnedLive(hs[h].addr) THEN [hs[g] EXCEPT !.st = "dtor"]
                ELSE hs[g]]
    /\ UNCHANGED <<reg, share, lock, zeroCount, nCtor, err, raced, made, xvars>>

\* the destructors called from ~T have returned: ~T and the destructor of the
\* handle end
DtorMemberEnd(h) ==
    /\ ~halted
    /\ hs[h].st = "deleting"
    /\ \A g \in Handles : owned[g] # hs[h].addr
    /\ hs' = [hs EXCEPT ![h] = NoHandle]
    /\ owned' = [owned EXCEPT ![h] = NullPtr]
    /\ UNCHANGED <<reg, share, blocks, lock, objState, dtorRuns, dtorTotal,
                   zeroCount, nCtor, err, halted, raced, made, q>>

\* the steps of one thread that is inside a constructor or a destructor
LGetLock(h) == GetLock(h) /\ UNCHANGED xvars
LFind(h) == find_shared_ptr(h) /\ UNCHANGED xvars
LDtorBody(h) == DtorBody(h) /\ UNCHANGED xvars

LDoCtorCopy ==
    (\E h \in Handles, src \in Handles : owned[src] = NullPtr /\ CtorCopy(h, src))
    /\ UNCHANGED xvars
LDoNewReferenceHandle ==
    (\E h \in Handles, src \in Handles : owned[src] = NullPtr /\ new_reference_handle(h, src))
    /\ UNCHANGED xvars
DoAttach == \E h \in Handles, a \in Addr : Attach(h, a)
DoDtorCall == \E h \in Handles : DtorCall(h)
DoDtorLock == \E h \in Handles : DtorLock(h)
DoDtorMemberPlain == \E h \in Handles : DtorMemberPlain(h)
DoDtorMemberOwning == \E h \in Handles : DtorMemberOwning(h)
DoDtorMemberEnd == \E h \in Handles : DtorMemberEnd(h)

LiveNext ==
    \/ DoCtorValue
    \/ DoCtorRaw
    \/ LDoCtorCopy
    \/ LDoNewReferenceHandle
    \/ DoAttach
    \/ DoGetLock
    \/ DoFind
    \/ DoDtorCall
    \/ DoDtorLock
    \/ DoDtorBody
    \/ DoDtorMemberPlain
    \/ DoDtorMemberOwning
    \/ DoDtorMemberEnd

\* Fair scheduling: a thread inside a constructor or destructor takes its
\* next step, and a thread waiting for the lock gets it if the lock is free
\* again and again
Fairness ==
    \A h \in Handles :
        /\ SF_vars(LGetLock(h))
        /\ WF_vars(LFind(h))
        /\ SF_vars(DtorLock(h))
        /\ WF_vars(LDtorBody(h))
        /\ WF_vars(DtorMemberPlain(h))
        /\ WF_vars(DtorMemberOwning(h))
        /\ WF_vars(DtorMemberEnd(h))

LiveSpec == Init /\ [][LiveNext]_vars /\ Fairness

----------------------------------------------------------------------------
(* Trampoline casts: known_conversions, as_type, cast_ptr_provider         *)

MaxN == 2            \* length of the array given to as_raw_pointers

\* Types a caller can ask for: those of the handles and two more
CastTypes == Types \cup {"T3", "T4"}

\* The Candidate Type Lists declared by specializations of known_conversions:
\*   known_conversions<T4>::dyn_cast is as_type<T4, T2, T1>
\*   known_conversions<T3>::dyn_cast is as_type<T3, T1>
\*   known_conversions<T1>::dyn_cast is as_type<T1, T2>
\*   T2 has no specialization
Declared(U) ==
    CASE U = "T4" -> <<"T2", "T1">>
      [] U = "T3" -> <<"T1">>
      [] U = "T1" -> <<"T2">>
      [] OTHER -> <<>>

\* The result of a cast: the pointer and the type it was cast through
\* (static_cast<T*>(static_cast<R*>(p)) adjusts p as an R)
CastOk(p, R) == [ptr |-> p, via |-> R]
CastNull == [ptr |-> NullPtr, via |-> "none"]

\* as_type that reinterprets p whatever its recorded type
as_type_any(T, Rs, p, tinfo) == CastOk(p, T)

\* as_type<T>(p, tinfo) and as_type<T, R, RArgs...>(p, tinfo)
RECURSIVE as_type(_, _, _, _)
as_type(T, Rs, p, tinfo) ==
    IF Rs = <<>>
    THEN IF tinfo = T THEN CastOk(p, T) ELSE CastNull
    ELSE IF tinfo = Head(Rs)
         THEN CastOk(p, Head(Rs))
         ELSE as_type(T, Tail(Rs), p, tinfo)

\* known_conversions<U>::dyn_cast(p, tinfo): the default template, or the
\* specialization of U
dyn_cast(U, p, tinfo) ==
    IF Declared(U) = <<>>
    THEN IF U = tinfo THEN CastOk(p, U) ELSE CastNull
    ELSE as_type(U, Declared(U), p, tinfo)

\* opaque_ptr_provider::wrapped_type_info of a reference_handle<T>: typeid(T)
wrapped_type_info(h) == hs[h].T

\* cast_ptr_provider::dynamic_cast_to<U>()
dynamic_cast_to(h, U) == dyn_cast(U, get_void_ptr(h), wrapped_type_info(h))

\* cast_ptr_provider::can_cast_to<U>()
can_cast_to(h, U) == dynamic_cast_to(h, U) # CastNull

----------------------------------------------------------------------------
(* Boundary marshalling helpers                                            *)

\* An opaque_ptr_provider* given to a helper: nullptr, a provider of a class
\* that is no cast_ptr_provider (it records a type and a pointer), or a live
\* handle
NullProv == [kind |-> "null", h |-> 0, T |-> "none", ptr |-> NullPtr]
PlainProv(T, p) == [kind |-> "plain", h |-> 0, T |-> T, ptr |-> p]
HandleProv(h) == [kind |-> "handle", h |-> h, T |-> "none", ptr |-> NullPtr]

LiveHandles == {h \in Handles : hs[h].st = "live"}
ObjectProviders ==
    {PlainProv(T, p) : T \in CastTypes, p \in Addr} \cup {HandleProv(h) : h \in LiveHandles}
Providers == {NullProv} \cup ObjectProviders

\* opaque_ptr_provider::wrapped_type_name()
wrapped_type_name(pv) == IF pv.kind = "handle" THEN wrapped_type_info(pv.h) ELSE pv.T

\* opaque_ptr_provider::get_void_ptr() (virtual)
prov_void_ptr(pv) == IF pv.kind = "handle" THEN get_void_ptr(pv.h) ELSE pv.ptr

\* The classes of providers: the two bases, reference_handle<T>, and one
\* other class derived from opaque_ptr_provider only
OpaquePtrProvider == <<"opaque_ptr_provider", "">>
CastPtrProvider == <<"cast_ptr_provider", "">>
OtherProvider == <<"opaque_ptr_provider", "other">>
RefHandleClass(T) == <<"reference_handle", T>>
ProviderClasses ==
    {RefHandleClass(T) : T \in CastTypes} \cup {OpaquePtrProvider, CastPtrProvider, OtherProvider}

\* The class of the object a provider pointer points to
ClassOf(pv) == IF pv.kind = "handle" THEN RefHandleClass(hs[pv.h].T) ELSE OtherProvider

\* dynamic_cast<C*>(sharedPtr) # nullptr: C is the class of the object or a
\* base of it (class reference_handle : public cast_ptr_provider, class
\* cast_ptr_provider : public opaque_ptr_provider)
IsA(pv, C) ==
    \/ C = ClassOf(pv)
    \/ C = OpaquePtrProvider
    \/ C = CastPtrProvider /\ pv.kind = "handle"

\* what a helper returns or throws (the message and the two names in it)
Returned(v) ==
    [err |-> "none", msg |-> "none", val |-> v, expected |-> "none", actual |-> "none"]
Thrown(msg, expected, actual) ==
    [err |-> "invalid_argument", msg |-> msg, val |-> NullProv,
     expected |-> expected, actual |-> actual]

\* checked_downcast that casts without a check
checked_downcast_static(C, pv) == Returned(pv)

\* checked_downcast<C>(sharedPtr)
checked_downcast(C, pv) ==
    IF pv.kind = "null"
    THEN Thrown("The pointer to a reference handle is nullptr", "none", "none")
    ELSE IF ~IsA(pv, C)
         THEN Thrown("Expected type", C, wrapped_type_name(pv))
         ELSE Returned(pv)

\* checked_reference_handle<T>(sharedPtr)
checked_reference_handle(T, pv) == checked_downcast(RefHandleClass(T), pv)

\* as_raw_pointers with the loop one short
as_raw_pointers_short(T, pvs, n) == [i \in 1..(n - 1) |-> prov_void_ptr(pvs[i])]

\* as_raw_pointers<T>(sharedPtrs, n): result[i] = (T*)sharedPtrs[i]->get_void_ptr()
as_raw_pointers(T, pvs, n) == [i \in 1..n |-> prov_void_ptr(pvs[i])]

\* as_raw_pointer without the check of the cast's result
as_raw_pointer_unchecked(T, pv) ==
    IF pv.kind = "null"
    THEN Thrown("Pointer is nullptr", "none", "none")
    ELSE IF IsA(pv, RefHandleClass(T))
         THEN Returned(CastOk(get_ptr(pv.h), T))
         ELSE IF ~IsA(pv, CastPtrProvider)
              THEN Thrown("Opaque pointer wrapper is not a cast_ptr_provider", "none", "none")
              ELSE Returned(dynamic_cast_to(pv.h, T))

\* as_raw_pointer<T>(sharedPtr)
as_raw_pointer(T, pv) ==
    IF pv.kind = "null"
    THEN Thrown("Pointer is nullptr", "none", "none")
    ELSE IF IsA(pv, RefHandleClass(T))
         THEN Returned(CastOk(get_ptr(pv.h), T))
         ELSE IF ~IsA(pv, CastPtrProvider)
              THEN Thrown("Opaque pointer wrapper is not a cast_ptr_provider", "none", "none")
              ELSE IF dynamic_cast_to(pv.h, T) = CastNull
                   THEN Thrown("Cannot cast pointer", T, wrapped_type_name(pv))
                   ELSE Returned(dynamic_cast_to(pv.h, T))

----------------------------------------------------------------------------
(* Calls of the queries and helpers on a given set of handles              *)

\* everything but the record of the last call
ovars == <<hs, reg, share, blocks, lock, objState, dtorRuns, dtorTotal,
           zeroCount, nCtor, err, halted, raced, made, owned>>

\* Handles as a sequence of constructions leaves them: handle 1 of type tA on
\* address 1, and either no other handle, or handle 2 of type tB on the same
\* object (adopted from its address), or handle 2 on an object at address 2
QModes == {"one", "shared", "two"}
QHandle(a, T, b) ==
    [st |-> "live", addr |-> a, T |-> T, sp |-> b, src |-> 0, own |-> FALSE]
QInit ==
    \E tA \in Types, tB \in Types, mode \in QModes :
        /\ hs = [h \in Handles |->
                    IF h = 1 THEN QHandle(1, tA, 1)
                    ELSE IF h = 2 /\ mode = "shared" THEN QHandle(1, tB, 1)
                    ELSE IF h = 2 /\ mode = "two" THEN QHandle(2, tB, 2)
                    ELSE NoHandle]
        /\ blocks = [b \in BlockIds |->
                    IF b = 1
                    THEN [addr |-> 1, uc |-> IF mode = "shared" THEN 3 ELSE 2, del |-> tA]
                    ELSE IF b = 2 /\ mode = "two"
                    THEN [addr |-> 2, uc |-> 2, del |-> tB]
                    ELSE NoBlockRec]
        /\ reg = [a \in Addr0 |->
                    IF a = 1 THEN 1 ELSE IF a = 2 /\ mode = "two" THEN 2 ELSE NoBlock]
        /\ share = [a \in Addr0 |->
                    IF a = 1 THEN (IF mode = "shared" THEN 2 ELSE 1)
                    ELSE IF a = 2 /\ mode = "two" THEN 1 ELSE 0]
        /\ made = [a \in Addr0 |->
                    IF a = 1 THEN (IF mode = "shared" THEN 2 ELSE 1)
                    ELSE IF a = 2 /\ mode = "two" THEN 1 ELSE 0]
        /\ objState = [a \in Addr |->
                    IF a = 1 \/ (a = 2 /\ mode = "two") THEN "live" ELSE "free"]
        /\ nCtor = IF mode = "one" THEN 1 ELSE 2
        /\ lock = 0
        /\ dtorRuns = [a \in Addr |-> 0]
        /\ dtorTotal = 0
        /\ zeroCount = 0
        /\ err = "none"
        /\ halted = FALSE
        /\ raced = [a \in Addr0 |-> FALSE]
        /\ q = NoQuery
        /\ owned = [h \in Handles |-> NullPtr]

\* h.count()
QCount(h) ==
    /\ hs[h].st = "live"
    /\ q = NoQuery
    /\ q' = [op |-> "count", h |-> h, res |-> count(h)]
    /\ UNCHANGED ovars

\* get_ptr() that hands out one more shared_ptr on the block
QGetPtr_sharing(h) ==
    /\ hs[h].st = "live"
    /\ q = NoQuery
    /\ q' = [op |-> "get_ptr", h |-> h, res |-> get_ptr(h)]
    /\ blocks' = [blocks EXCEPT ![hs[h].sp].uc = @ + 1]
    /\ UNCHANGED <<hs, reg, share, lock, objState, dtorRuns, dtorTotal,
                   zeroCount, nCtor, err, halted, raced, made, owned>>

\* h.get_ptr()
QGetPtr(h) ==
    /\ hs[h].st = "live"
    /\ q = NoQuery
    /\ q' = [op |-> "get_ptr", h |-> h, res |-> get_ptr(h)]
    /\ UNCHANGED ovars

\* h.get_void_ptr()
QGetVoidPtr(h) ==
    /\ hs[h].st = "live"
    /\ q = NoQuery
    /\ q' = [op |-> "get_void_ptr", h |-> h, res |-> get_void_ptr(h)]
    /\ UNCHANGED ovars

\* h.can_cast_to<U>()
QCanCastTo(h, U) ==
    /\ hs[h].st = "live"
    /\ q = NoQuery
    /\ q' = [op |-> "can_cast_to", h |-> h, U |-> U, res |-> can_cast_to(h, U)]
    /\ UNCHANGED ovars

\* h.dynamic_cast_to<U>()
QDynamicCastTo(h, U) ==
    /\ hs[h].st = "live"
    /\ q = NoQuery
    /\ q' = [op |-> "dynamic_cast_to", h |-> h, U |-> U, res |-> dynamic_cast_to(h, U)]
    /\ UNCHANGED ovars

\* checked_downcast<C>(pv)
QCheckedDowncast(C, pv) ==
    /\ q = NoQuery
    /\ q' = [op |-> "checked_downcast", C |-> C, pv |-> pv, res |-> checked_downcast(C, pv)]
    /\ UNCHANGED ovars

\* checked_reference_handle<T>(pv)
QCheckedReferenceHandle(T, pv) ==
    /\ q = NoQuery
    /\ q' = [op |-> "checked_reference_handle", T |-> T, pv |-> pv,
             res |-> checked_reference_handle(T, pv)]
    /\ UNCHANGED ovars

\* as_raw_pointer<T>(pv)
QAsRawPointer(T, pv) ==
    /\ q = NoQuery
    /\ q' = [op |-> "as_raw_pointer", T |-> T, pv |-> pv, res |-> as_raw_pointer(T, pv)]
    /\ UNCHANGED ovars

\* as_raw_pointers<T>(pvs, n), pvs an array of n providers
QAsRawPointers(T, pvs, n) ==
    /\ q = NoQuery
    /\ q' = [op |-> "as_raw_pointers", T |-> T, pvs |-> pvs, n |-> n,
             res |-> as_raw_pointers(T, pvs, n)]
    /\ UNCHANGED ovars

\* the caller takes the result of the call
QReturn ==
    /\ q # NoQuery
    /\ q' = NoQuery
    /\ UNCHANGED ovars

\* a call is made when the caller has taken the result of the last one
DoQCount == q = NoQuery /\ \E h \in Handles : QCount(h)
DoQGetPtr == q = NoQuery /\ \E h \in Handles : QGetPtr(h)
DoQGetVoidPtr == q = NoQuery /\ \E h \in Handles : QGetVoidPtr(h)
DoQCanCastTo == q = NoQuery /\ \E h \in Handles, U \in CastTypes : QCanCastTo(h, U)
DoQDynamicCastTo == q = NoQuery /\ \E h \in Handles, U \in CastTypes : QDynamicCastTo(h, U)
DoQCheckedDowncast ==
    q = NoQuery /\ \E C \in ProviderClasses, pv \in Providers : QCheckedDowncast(C, pv)
DoQCheckedReferenceHandle ==
    q = NoQuery /\ \E T \in CastTypes, pv \in Providers : QCheckedReferenceHandle(T, pv)
DoQAsRawPointer ==
    q = NoQuery /\ \E T \in CastTypes, pv \in Providers : QAsRawPointer(T, pv)
DoQAsRawPointers ==
    q = NoQuery /\
    \E T \in CastTypes, n \in 0..MaxN :
        \E pvs \in [1..n -> ObjectProviders] : QAsRawPointers(T, pvs, n)

QNext ==
    \/ DoQCount
    \/ DoQGetPtr
    \/ DoQGetVoidPtr
    \/ DoQCanCastTo
    \/ DoQDynamicCastTo
    \/ DoQCheckedDowncast
    \/ DoQCheckedReferenceHandle
    \/ DoQAsRawPointer
    \/ DoQAsRawPointers
    \/ QReturn

QSpec == QInit /\ [][QNext]_vars

----------------------------------------------------------------------------
(* Claims                                                                  *)

\* Control blocks that exist (some shared_ptr refers to them) for address a
BlocksOf(a) == {b \in BlockIds : blocks[b].uc > 0 /\ blocks[b].addr = a}

\* No handle, in any stage of its life, refers to address a
NoHandleOn(a) == \A h \in Handles : hs[h].st # "none" => hs[h].addr # a

\* Live handles that share the control block of h
Sharing(h) == {g \in Handles : hs[g].st = "live" /\ hs[g].sp = hs[h].sp}

\* C1: once two (or more) handles were constructed over the object at an
\* address, none of the constructions overlapping a destruction on that
\* address, and all of them are destroyed, the destructor of the object has
\* run exactly once and the registry holds no entry for the address.
C1_DestroyedExactlyOnce ==
    \A a \in Addr :
        (made[a] >= 2 /\ ~raced[a] /\ NoHandleOn(a))
            => (dtorRuns[a] = 1 /\ objState[a] = "free" /\ reg[a] = NoBlock)

C1_Witness ==
    \E a \in Addr :
        /\ made[a] = 2 /\ ~raced[a] /\ NoHandleOn(a)
        /\ dtorRuns[a] = 1 /\ reg[a] = NoBlock

\* C2: in every reachable state at most one OwnershipBlock exists per
\* address.
C2_OneBlockPerAddress == \A a \in Addr : Cardinality(BlocksOf(a)) <= 1

\* C3: the object of every handle between the end of its construction and
\* the start of its destruction has not been destroyed.
C3_LiveHandleObjectAlive ==
    \A h \in Handles : hs[h].st = "live" => objState[get_ptr(h)] = "live"

\* C4 as stated: count() of a live handle is the number of other live
\* handles sharing its object (0 for a handle with no aliases).
C4_CountsOthers ==
    Quiescent =>
        \A h \in Handles : hs[h].st = "live" => count(h) = Cardinality(Sharing(h) \ {h})

\* C4 as amended: count() of a live handle is the number of live handles
\* sharing its object, itself included: 1 for a handle with no aliases;
\* a handle made by new_reference_handle() or by copy raises the count of its
\* source by one and reports the same count.
C4_CountsSharers ==
    [][ /\ (Quiescent =>
              \A h \in Handles : hs[h].st = "live" => count(h) = Cardinality(Sharing(h)))'
        /\ \A h \in Handles :
              (hs[h].st = "in_get" /\ hs[h].src # 0 /\ hs'[h].st = "live")
                  => \E s \in Handles :
                         /\ s = hs[h].src
                         /\ count(s)' = count(s) + 1
                         /\ count(h)' = count(s)' ]_vars

C4_Witness ==
    /\ Quiescent
    /\ \E a \in Addr, h \in Handles :
        /\ made[a] = 2 /\ dtorRuns[a] = 0
        /\ {g \in Handles : hs[g].st # "none"} = {h}
        /\ hs[h].st = "live" /\ get_ptr(h) = a
        /\ count(h) = 1

\* C5: in every quiescent state count() of a live handle on address a is the
\* number of holders of a's block (live handles on a plus the registry's slot)
\* minus one, which is the number of handles holding it.
C5_CountIsHoldersMinusOne ==
    Quiescent =>
        \A h \in Handles : hs[h].st = "live" =>
            LET a == get_ptr(h)
                slot == IF reg[a] # NoBlock THEN 1 ELSE 0
            IN /\ count(h) = (Cardinality(LiveOn(a)) + slot) - 1
               /\ count(h) = Cardinality(LiveOn(a))

C5_Witness ==
    /\ Quiescent
    /\ \E a \in Addr, h \in Handles :
        /\ Cardinality(LiveOn(a)) = 2 /\ h \in LiveOn(a)
        /\ reg[a] # NoBlock
        /\ count(h) = 2

\* C6: at the end of a run (every handle destroyed) the number of destructor
\* invocations equals the number of times the share of a registry entry
\* reached zero, and no control block and no entry is left.
C6_DtorsEqualZeroShares ==
    (\A h \in Handles : hs[h].st = "none")
        => /\ dtorTotal = zeroCount
           /\ \A b \in BlockIds : blocks[b].uc = 0
           /\ \A a \in Addr0 : reg[a] = NoBlock /\ share[a] = 0

C6_Witness ==
    /\ \A h \in Handles : hs[h].st = "none"
    /\ zeroCount >= 2 /\ dtorTotal = zeroCount
    /\ \E a \in Addr : raced[a]

\* C7 as stated: the destructor runs in the step in which the share of the
\* entry reaches zero, before release returns.
C7_DestroyedInsideRelease ==
    [][zeroCount' # zeroCount => dtorTotal' # dtorTotal]_vars

\* C7 as amended: release never runs the destructor; the thread that drops
\* the last reference runs it inline in the same ~reference_handle() call, in
\* the step after release returned, when the handle's sharedPtr member is
\* destroyed and the use count of the block reaches zero.
C7_DestroyedAfterRelease ==
    [][ /\ zeroCount' # zeroCount => dtorTotal' = dtorTotal
        /\ dtorTotal' # dtorTotal =>
              \E h \in Handles :
                  /\ hs[h].st = "released" /\ hs'[h].st = "none"
                  /\ use_count(hs[h].sp) = 1
                  /\ dtorRuns'[get_ptr(h)] = dtorRuns[get_ptr(h)] + 1
        /\ \A h \in Handles :
              (hs[h].st = "released" /\ hs'[h].st = "none" /\ use_count(hs[h].sp) = 1)
                  => dtorTotal' = dtorTotal + 1 ]_vars

C7_Witness ==
    \E h \in Handles :
        /\ hs[h].st = "released"
        /\ reg[get_ptr(h)] = NoBlock
        /\ use_count(hs[h].sp) = 1
        /\ objState[get_ptr(h)] = "live"
        /\ dtorRuns[get_ptr(h)] = 0

\* C8: adopting a null pointer fails with invalid_argument, makes no handle
\* and leaves the registry and every share unchanged; no handle and no entry
\* is ever on the null address, so no release follows.
C8_NullAdoptionFails ==
    [][ /\ (nCtor' # nCtor /\ err' = "invalid_argument")
              => UNCHANGED <<hs, reg, share, blocks, lock, objState, dtorRuns,
                             dtorTotal, zeroCount, made>>
        /\ \A h \in Handles : hs'[h].st # "none" => hs'[h].addr # NullPtr
        /\ reg'[NullPtr] = NoBlock /\ share'[NullPtr] = 0 ]_vars

C8_Witness ==
    /\ err = "invalid_argument"
    /\ \E a \in Addr : reg[a] # NoBlock /\ share[a] >= 1
    /\ \E h \in Handles : hs[h].st = "live"

\* C9: get(address, factory) invokes the factory (a new block appears) if and
\* only if no block exists for the address; else the handle joins that block,
\* whose share grows by one and whose destructor is not rebound.
C9_FactoryIffNoBlock ==
    [][ \A h \in Handles :
          (hs[h].st = "in_get" /\ hs'[h].st = "live") =>
              LET p == hs[h].addr
                  b == hs'[h].sp
              IN IF BlocksOf(p) = {}
                 THEN blocks[b].uc = 0 /\ blocks'[b].del = hs[h].T
                 ELSE /\ b \in BlocksOf(p)
                      /\ blocks'[b].del = blocks[b].del
                      /\ share'[p] = share[p] + 1 ]_vars

\* C10: a copy-constructed handle and the handle new_reference_handle()
\* returns are other handles on the address and the block of their source;
\* the objects and the registry entries stay as they are and only the share of
\* that one block grows by one.
C10_CopyJoinsBlock ==
    [][ \A h \in Handles :
          /\ (hs[h].st = "none" /\ hs'[h].st = "ctor" /\ hs'[h].src # 0)
                => /\ UNCHANGED <<reg, share, blocks, objState, dtorTotal>>
                   /\ hs'[h].addr = get_ptr(hs'[h].src)
          /\ (hs[h].st = "in_get" /\ hs[h].src # 0 /\ hs'[h].st = "live")
                => LET s == hs[h].src
                       a == get_ptr(s)
                   IN /\ h # s /\ hs'[s].st = "live"
                      /\ get_ptr(h)' = a
                      /\ hs'[h].sp = hs[s].sp
                      /\ UNCHANGED <<reg, objState, dtorTotal>>
                      /\ share' = [share EXCEPT ![a] = @ + 1]
                      /\ blocks' = [blocks EXCEPT ![hs[s].sp].uc = @ + 1] ]_vars

C10_Witness ==
    \E h \in Handles, g \in Handles :
        /\ h # g /\ hs[h].st = "live" /\ hs[g].st = "live"
        /\ hs[h].sp = hs[g].sp /\ hs[h].T = hs[g].T
        /\ share[get_ptr(h)] = 2
        /\ Cardinality({a \in Addr : objState[a] = "live"}) = 1
        /\ Cardinality({a \in Addr : reg[a] # NoBlock}) = 1

\* Handles inside the map-mutating section of get or of release
InSection == {h \in Handles : hs[h].st \in {"in_get", "in_release"}}

\* C15: the mutations of the registry map are serialized by one lock: never
\* two threads are inside get or release, the thread inside holds the lock,
\* and every change of the map is one step of the thread inside, which
\* leaves the section with it.
C15_MapSerialized ==
    [][ /\ Cardinality(InSection) <= 1 /\ (Cardinality(InSection) <= 1)'
        /\ \A h \in Handles : (h \in InSection <=> lock = h)
                               /\ (h \in InSection <=> lock = h)'
        /\ (reg' # reg \/ share' # share)
              => /\ lock # 0 /\ lock' = 0
                 /\ hs[lock].st \in {"in_get", "in_release"}
                 /\ hs'[lock].st \in {"live", "released"}
                 /\ \A g \in Handles \ {lock} : hs'[g] = hs[g] ]_vars

C15_Witness ==
    \E h \in Handles, g \in Handles :
        /\ h # g /\ hs[h].addr = hs[g].addr
        /\ hs[h].st = "in_release" /\ lock = h
        /\ hs[g].st = "ctor"

\* C16: construction from a value makes a new block for an address that had
\* no registry entry: the handle never joins a block that was there before.
C16_ValueCtorNewBlock ==
    [][ \A h \in Handles :
          (hs[h].st = "in_get" /\ hs[h].own /\ hs'[h].st = "live")
              => /\ reg[hs[h].addr] = NoBlock
                 /\ blocks[hs'[h].sp].uc = 0
                 /\ share'[hs[h].addr] = 1 ]_vars

\* C20: a step of a handle on one address leaves the entry, the share and
\* the object of every other address as they are; in every quiescent state
\* an address has a registry entry if and only if a live handle is on it.
C20_AddressesIndependent ==
    [][ /\ \A h \in Handles :
              hs'[h] # hs[h] =>
                  \A a \in Addr :
                      (a # hs[h].addr /\ a # hs'[h].addr)
                          => /\ reg'[a] = reg[a]
                             /\ share'[a] = share[a]
                             /\ objState'[a] = objState[a]
                             /\ dtorRuns'[a] = dtorRuns[a]
        /\ (Quiescent => \A a \in Addr : reg[a] # NoBlock <=> LiveOn(a) # {})' ]_vars

C20_Witness ==
    /\ Quiescent
    /\ \E a \in Addr, b \in Addr :
        /\ a # b
        /\ LiveOn(a) # {} /\ reg[a] # NoBlock /\ objState[a] = "live"
        /\ LiveOn(b) = {} /\ reg[b] = NoBlock /\ dtorRuns[b] = 1

\* The types of a Candidate Type List
Range(s) == {s[i] : i \in 1..Len(s)}

\* C11 as stated: dynamic_cast_to<U> succeeds only when the recorded type is
\* one of the types declared in U's Candidate Type List, or, when U has no
\* list, is exactly U
C11_OnlyDeclared ==
    q.op = "dynamic_cast_to" =>
        (q.res # CastNull =>
            IF Declared(q.U) = <<>>
            THEN hs[q.h].T = q.U
            ELSE hs[q.h].T \in Range(Declared(q.U)))

\* the recorded type of the handle of the last call is U or is declared for U
C11_Accepted == hs[q.h].T = q.U \/ hs[q.h].T \in Range(Declared(q.U))

\* C11 amended: dynamic_cast_to<U> (and so can_cast_to<U>) succeeds exactly
\* when the recorded type is exactly U or is declared in U's Candidate Type
\* List; a success is the handle's own pointer cast through the recorded
\* type, and every other recorded type gives the failure marker
C11_DeclaredOrExact ==
    /\ q.op = "dynamic_cast_to" =>
        /\ q.res # CastNull <=> C11_Accepted
        /\ q.res # CastNull =>
            /\ q.res.ptr = get_void_ptr(q.h)
            /\ q.res.via = hs[q.h].T
    /\ q.op = "can_cast_to" => (q.res <=> C11_Accepted)

\* a cast to a type with a list succeeded on a listed type, and another
\* handle's cast would fail
C11_Witness ==
    /\ q.op = "dynamic_cast_to"
    /\ Declared(q.U) # <<>>
    /\ q.res # CastNull
    /\ hs[q.h].T \in Range(Declared(q.U))
    /\ \E g \in Handles : hs[g].st = "live" /\ dynamic_cast_to(g, q.U) = CastNull

\* C12: as_raw_pointer<T> throws invalid_argument on a null provider; returns
\* get_ptr() of a provider that is a reference handle of T; throws on a
\* provider that is no cast_ptr_provider; otherwise returns the trampoline
\* cast's pointer when the recorded type is declared in T's list and throws
\* when it is not; and it never returns a null pointer
C12_AsRawPointerOrder ==
    q.op = "as_raw_pointer" =>
        /\ CASE q.pv.kind = "null" -> q.res.err = "invalid_argument"
             [] q.pv.kind = "handle" /\ hs[q.pv.h].T = q.T ->
                    q.res.err = "none" /\ q.res.val.ptr = get_ptr(q.pv.h)
             [] q.pv.kind = "plain" -> q.res.err = "invalid_argument"
             [] OTHER ->
                    IF hs[q.pv.h].T \in Range(Declared(q.T))
                    THEN q.res.err = "none" /\ q.res.val = dynamic_cast_to(q.pv.h, q.T)
                    ELSE q.res.err = "invalid_argument"
        /\ q.res.err = "none" => q.res.val.ptr # NullPtr

\* a handle of another type, declared in T's list, was converted, and a
\* handle of a type that is not declared would be refused
C12_Witness ==
    /\ q.op = "as_raw_pointer"
    /\ q.pv.kind = "handle"
    /\ hs[q.pv.h].T # q.T
    /\ hs[q.pv.h].T \in Range(Declared(q.T))
    /\ q.res.err = "none"
    /\ \E g \in LiveHandles :
        hs[g].T # q.T /\ as_raw_pointer(q.T, HandleProv(g)).err = "invalid_argument"

\* C13: checked_downcast<C> throws invalid_argument on a null provider and on
\* a provider that is not a C, the second with the name of C and the recorded
\* type name of the provider; on a provider that is a C it returns the
\* provider itself, not null; checked_reference_handle<T> is
\* checked_downcast<reference_handle<T>>
C13_CheckedDowncast ==
    /\ q.op = "checked_downcast" =>
        CASE q.pv.kind = "null" -> q.res.err = "invalid_argument"
          [] q.pv.kind = "handle" /\
             q.C \in {RefHandleClass(hs[q.pv.h].T), CastPtrProvider, OpaquePtrProvider} ->
                q.res.err = "none" /\ q.res.val = q.pv /\ q.res.val # NullProv
          [] q.pv.kind = "plain" /\ q.C \in {OtherProvider, OpaquePtrProvider} ->
                q.res.err = "none" /\ q.res.val = q.pv /\ q.res.val # NullProv
          [] OTHER ->
                /\ q.res.err = "invalid_argument"
                /\ q.res.expected = q.C
                /\ q.res.actual = IF q.pv.kind = "handle" THEN hs[q.pv.h].T ELSE q.pv.T
    /\ q.op = "checked_reference_handle" =>
        q.res = checked_downcast(RefHandleClass(q.T), q.pv)

\* a handle was asked for as a reference handle of another type, and the call
\* failed with both names
C13_Witness ==
    /\ q.op = "checked_reference_handle"
    /\ q.pv.kind = "handle"
    /\ hs[q.pv.h].T # q.T
    /\ q.res.err = "invalid_argument"
    /\ q.res.expected = RefHandleClass(q.T)
    /\ q.res.actual = hs[q.pv.h].T

\* C17: as_raw_pointers<T>(providers, n) returns n pointers, the i-th being
\* get_void_ptr() of the i-th provider, whatever the recorded types are
C17_RawPointersUnchecked ==
    q.op = "as_raw_pointers" =>
        /\ Len(q.res) = q.n
        /\ \A i \in 1..q.n :
            q.res[i] = IF q.pvs[i].kind = "handle"
                       THEN hs[q.pvs[i].h].addr
                       ELSE q.pvs[i].ptr

\* an array of MaxN providers was converted, one of them a handle of a type
\* that as_raw_pointer refuses for T
C17_Witness ==
    /\ q.op = "as_raw_pointers"
    /\ q.n = MaxN
    /\ Len(q.res) = MaxN
    /\ \E i \in 1..q.n :
        /\ q.pvs[i].kind = "handle"
        /\ as_raw_pointer(q.T, q.pvs[i]).err = "invalid_argument"

\* the operations C19 is about
QueryOps ==
    {"count", "get_ptr", "get_void_ptr", "can_cast_to", "dynamic_cast_to",
     "checked_downcast", "checked_reference_handle", "as_raw_pointer", "as_raw_pointers"}

\* C19: a call of a query or of a marshalling helper, failed or not, leaves
\* the registry entries, the share and use counts of every block and the
\* set of destroyed objects as they were
C19_QueriesKeepOwnership ==
    [][q'.op \in QueryOps =>
        /\ reg' = reg
        /\ share' = share
        /\ blocks' = blocks
        /\ objState' = objState
        /\ dtorRuns' = dtorRuns
        /\ hs' = hs]_vars

\* a helper failed on a handle whose object is shared by two handles
C19_Witness ==
    /\ q.op = "as_raw_pointer"
    /\ q.res.err = "invalid_argument"
    /\ q.pv.kind = "handle"
    /\ share[hs[q.pv.h].addr] = 2
    /\ blocks[hs[q.pv.h].sp].uc = 3

\* C14: a get that finds an entry never fails; a get whose factory fails
\* forwards the failure, inserts no entry for the address and leaves every
\* entry and share count as it was, so that the address is then as a
\* never-seen one (no entry, no share)
C14_FactoryFailureForwarded ==
    [][\A h \in Handles :
        hs[h].st = "in_get" /\ hs'[h] # hs[h] =>
            IF hs'[h].st = "live"
            THEN err' = err
            ELSE /\ reg[hs[h].addr] = NoBlock
                 /\ err' = "bad_alloc"
                 /\ reg' = reg
                 /\ share' = share
                 /\ reg'[hs[h].addr] = NoBlock
                 /\ share'[hs[h].addr] = 0]_vars

\* the factory has failed while another address had its entry
C14_Witness ==
    /\ err = "bad_alloc"
    /\ \E a \in Addr : reg[a] # NoBlock /\ share[a] >= 1
    /\ \E p \in Addr : reg[p] = NoBlock /\ share[p] = 0 /\ dtorRuns[p] = 1

\* a thread is inside a constructor or destructor of handle h
InCall(h) ==
    hs[h].st \in {"ctor", "in_get", "dtor", "in_release", "released", "deleting"}

\* C18: under fair scheduling every construction and every destruction of a
\* handle that has begun completes, also when the destructor of the object
\* destroys handles on other addresses and when threads construct and
\* destroy handles on one address at once
C18_EveryCallCompletes == \A h \in Handles : InCall(h) ~> ~InCall(h)

====
